---- MODULE Spec2Model ----
(***************************************************************************)
(* A model of the AiComments repository: the Tasker sample application     *)
(* (in-memory repository, service layer, CLI dispatcher) and the AI        *)
(* Comment scanner described by the guide's detection patterns.            *)
(*                                                                         *)
(* Strings are sequences of one-character strings, so that trim(), join()  *)
(* and the regular expressions are computed, not assumed.                  *)
(***************************************************************************)
EXTENDS Integers, Sequences, FiniteSets, TLC

VARIABLES
    tasks,      \* InMemoryTaskRepository.tasks: the Map, in insertion order
    clock,      \* the wall clock read by nowIso()
    lastOp,     \* the operation performed by the last step
    lastArg,    \* the inputs of the last operation
    result,     \* what the last operation returned, or that it threw
    text,       \* scanner: the source text handed to the scanner
    phase,      \* scanner: "input" while the text is written, "scanned" after
    out         \* scanner: the annotations returned by the scan

vars == <<tasks, clock, lastOp, lastArg, result, text, phase, out>>

-----------------------------------------------------------------------------
(* Bounds of the model. *)

MaxTasks == 2
MaxClock == 1
MaxToks == 5

-----------------------------------------------------------------------------
(* Strings. *)

WS == {" ", "\n"}

UNDEFINED == <<"undefined">>

RECURSIVE SkipWs(_, _)
\* index of the first character at or after i that is not whitespace
\* (Len(s) + 1 when there is none): a greedy \s*
SkipWs(s, i) ==
    IF i <= Len(s) /\ s[i] \in WS THEN SkipWs(s, i + 1) ELSE i

RECURSIVE SkipWsBack(_, _)
\* index of the last character at or before j that is not whitespace (0 if none)
SkipWsBack(s, j) ==
    IF j >= 1 /\ s[j] \in WS THEN SkipWsBack(s, j - 1) ELSE j

\* String.prototype.trim
trim(s) ==
    LET a == SkipWs(s, 1)
        b == SkipWsBack(s, Len(s))
    IN  IF a > b THEN <<>> ELSE SubSeq(s, a, b)

RECURSIVE join(_, _)
\* Array.prototype.join
join(parts, sep) ==
    IF Len(parts) = 0 THEN <<>>
    ELSE IF Len(parts) = 1 THEN parts[1]
    ELSE parts[1] \o sep \o join(Tail(parts), sep)

-----------------------------------------------------------------------------
(* utils.ts and models.ts *)

EXIT_OK == 0
EXIT_USAGE == 2
EXIT_RUNTIME == 1

Digits == <<"0", "1">>

DigitRank(c) == CHOOSE k \in 1..Len(Digits) : Digits[k] = c

\* Date#toISOString on the clock: a fixed-width positional rendering
nowIso(t) == <<Digits[(t \div 2) + 1], Digits[(t % 2) + 1]>>

IsoStrings == {nowIso(t) : t \in 0..3}

RECURSIVE localeCompare(_, _)
\* String.prototype.localeCompare on timestamps: -1, 0 or 1
localeCompare(a, b) ==
    IF Len(a) = 0 /\ Len(b) = 0 THEN 0
    ELSE IF Len(a) = 0 THEN -1
    ELSE IF Len(b) = 0 THEN 1
    ELSE IF DigitRank(a[1]) < DigitRank(b[1]) THEN -1
    ELSE IF DigitRank(a[1]) > DigitRank(b[1]) THEN 1
    ELSE localeCompare(Tail(a), Tail(b))

\* the identifiers createTaskId() can return (time and Math.random() decide)
TaskIds == {<<"x">>, <<"u">>}

isNonEmptyString(value) == value # UNDEFINED /\ Len(trim(value)) > 0

-----------------------------------------------------------------------------
(* repository.ts: InMemoryTaskRepository over the Map's insertion order *)

Task(id, title, status, createdAtIso, completedAtIso) ==
    [id |-> id, title |-> title, status |-> status,
     createdAtIso |-> createdAtIso, completedAtIso |-> completedAtIso]

HasId(ts, id) == \E i \in 1..Len(ts) : ts[i].id = id

IndexOfId(ts, id) == CHOOSE i \in 1..Len(ts) : ts[i].id = id

\* Map.prototype.set: a new key goes last, an existing key keeps its place
MapSet(ts, task) ==
    IF HasId(ts, task.id) THEN [ts EXCEPT ![IndexOfId(ts, task.id)] = task]
    ELSE Append(ts, task)

\* Map.prototype.delete
MapDelete(ts, id) == SelectSeq(ts, LAMBDA t : t.id # id)

create(ts, task) == MapSet(ts, task)

getById(ts, id) == IF HasId(ts, id) THEN ts[IndexOfId(ts, id)] ELSE UNDEFINED

RECURSIVE InsertSorted(_, _)
\* t placed after every element that does not compare greater than it
InsertSorted(sorted, t) ==
    IF Len(sorted) = 0 THEN <<t>>
    ELSE IF localeCompare(Head(sorted).createdAtIso, t.createdAtIso) <= 0
         THEN <<Head(sorted)>> \o InsertSorted(Tail(sorted), t)
         ELSE <<t>> \o sorted

RECURSIVE StableSort(_, _)
\* Array.prototype.sort (stable) with the comparator of list()
StableSort(ts, acc) ==
    IF Len(ts) = 0 THEN acc ELSE StableSort(Tail(ts), InsertSorted(acc, Head(ts)))

\* list() with the sort left out
list_unsorted(ts) == ts

\* list(): a sorted copy of the Map's values; the Map is not touched
list(ts) == StableSort(ts, <<>>)

\* updateStatus(): throws when the id is unknown, else stores and returns the copy
updateStatus(ts, id, status, completedAtIso) ==
    IF ~HasId(ts, id)
    THEN [threw |-> TRUE, tasks |-> ts, value |-> UNDEFINED]
    ELSE LET existing == ts[IndexOfId(ts, id)]
             updated == [existing EXCEPT
                            !.status = status,
                            !.completedAtIso =
                                IF status = "done" THEN completedAtIso ELSE UNDEFINED]
         IN  [threw |-> FALSE, tasks |-> MapSet(ts, updated), value |-> updated]

remove(ts, id) == MapDelete(ts, id)

-----------------------------------------------------------------------------
(* service.ts: TaskService *)

\* addTask() with the title stored as it came
addTask_untrimmed(ts, title, id, now) ==
    LET task == Task(id, title, "open", now, UNDEFINED)
    IN  [tasks |-> create(ts, task), value |-> task]

\* addTask(): id from createTaskId(), createdAtIso from nowIso()
addTask(ts, title, id, now) ==
    LET task == Task(id, trim(title), "open", now, UNDEFINED)
    IN  [tasks |-> create(ts, task), value |-> task]

listTasks(ts) == list(ts)

markDone(ts, id, now) == updateStatus(ts, id, "done", now)

serviceRemove(ts, id) == remove(ts, id)

-----------------------------------------------------------------------------
(* cli.ts: runCli *)

ADD == <<"a", "d", "d">>
LIST == <<"l", "i", "s", "t">>
DONE == <<"d", "o", "n", "e">>
REMOVE == <<"r", "e", "m", "o", "v", "e">>
HELP == <<"h", "e", "l", "p">>
DASH_H == <<"-", "h">>
DASH_HELP == <<"-", "-", "h", "e", "l", "p">>

Returned(ts, code) == [threw |-> FALSE, exitCode |-> code, tasks |-> ts]

Thrown(ts) == [threw |-> TRUE, exitCode |-> -1, tasks |-> ts]

\* the add command's return, with the task addTask() handed back (`created`;
\* the process state keeps it as a sequence of one task, empty for other commands)
Added(r, code) ==
    [threw |-> FALSE, exitCode |-> code, tasks |-> r.tasks, created |-> r.value]

\* runCli(argv, service): the exit code it returns, or that it threw, and the
\* repository it leaves behind.  id and now are what createTaskId() and
\* nowIso() return when the command calls them.
runCli(argv, ts, id, now) ==
    LET command == IF Len(argv) = 0 THEN UNDEFINED ELSE argv[1]
        rest == IF Len(argv) = 0 THEN <<>> ELSE Tail(argv)
        arg0 == IF Len(rest) = 0 THEN UNDEFINED ELSE rest[1]
    IN  IF command = UNDEFINED \/ command = <<>> \/ command = HELP
           \/ command = DASH_H \/ command = DASH_HELP
        THEN Returned(ts, EXIT_OK)
        ELSE IF command = ADD
        THEN LET title == join(rest, <<" ">>)
             IN  IF ~isNonEmptyString(title) THEN Returned(ts, EXIT_USAGE)
                 ELSE Added(addTask(ts, title, id, now), EXIT_OK)
        ELSE IF command = LIST
        THEN Returned(ts, EXIT_OK)
        ELSE IF command = DONE
        THEN IF ~isNonEmptyString(arg0) THEN Returned(ts, EXIT_USAGE)
             ELSE LET r == markDone(ts, arg0, now)
                  IN  IF r.threw THEN Thrown(r.tasks) ELSE Returned(r.tasks, EXIT_OK)
        ELSE IF command = REMOVE
        THEN IF ~isNonEmptyString(arg0) THEN Returned(ts, EXIT_USAGE)
             ELSE Returned(serviceRemove(ts, arg0), EXIT_OK)
        ELSE Returned(ts, EXIT_USAGE)

-----------------------------------------------------------------------------
(* The Tasker process: commands run against one service, as runCli's        *)
(* signature allows (main() runs one command on a fresh repository).        *)

Commands == {ADD, LIST, DONE, REMOVE, HELP, <<>>, <<"x">>}

RestWords == {<<" ">>, <<"x">>}

Rests == {<<>>} \cup {<<a>> : a \in RestWords}
            \cup {<<a, b>> : a \in RestWords, b \in RestWords}

Argvs == {<<>>} \cup {<<c>> \o r : c \in Commands, r \in Rests}

IdleScanner == text = <<>> /\ phase = "idle" /\ out = <<>>

Init ==
    /\ tasks = <<>>
    /\ clock = 0
    /\ lastOp = "none"
    /\ lastArg = <<>>
    /\ result = [threw |-> FALSE, exitCode |-> EXIT_OK, created |-> <<>>]
    /\ IdleScanner

\* time passes between two commands
Tick ==
    /\ clock < MaxClock
    /\ clock' = clock + 1
    /\ UNCHANGED <<tasks, lastOp, lastArg, result, text, phase, out>>

RunCli ==
    \E argv \in Argvs, id \in TaskIds :
        LET r == runCli(argv, tasks, id, nowIso(clock))
        IN  /\ Len(r.tasks) <= MaxTasks
            /\ tasks' = r.tasks
            /\ lastOp' = "runCli"
            /\ lastArg' = [argv |-> argv,
                           known |-> Len(argv) >= 2 /\ HasId(tasks, argv[2])]
            /\ result' = [threw |-> r.threw, exitCode |-> r.exitCode,
                          created |-> IF "created" \in DOMAIN r
                                      THEN <<r.created>> ELSE <<>>]
            /\ UNCHANGED <<clock, text, phase, out>>

Next == RunCli \/ Tick

Spec == Init /\ [][Next]_vars

-----------------------------------------------------------------------------
(* The repository used directly through the TaskRepository interface.       *)

RepoIds == {<<"x">>, <<"u">>, <<"v">>}

RepoIsos == {nowIso(0), nowIso(1), nowIso(2)}

\* the tasks handed to create(): open ones and completed ones
RepoTasks ==
    {Task(id, <<"x">>, "open", cr, UNDEFINED) : id \in RepoIds, cr \in RepoIsos}
    \cup {Task(id, <<"x">>, "done", cr, nowIso(3)) : id \in RepoIds, cr \in RepoIsos}

RepoInit ==
    /\ tasks = <<>>
    /\ clock = 0
    /\ lastOp = "none"
    /\ lastArg = <<>>
    /\ result = [threw |-> FALSE, value |-> UNDEFINED]
    /\ IdleScanner

Create ==
    \E task \in RepoTasks :
        /\ Len(create(tasks, task)) <= MaxTasks
        /\ tasks' = create(tasks, task)
        /\ lastOp' = "create"
        /\ lastArg' = <<>>
        /\ result' = [threw |-> FALSE, value |-> UNDEFINED]
        /\ UNCHANGED <<clock, text, phase, out>>

GetById ==
    \E id \in RepoIds :
        /\ lastOp' = "getById"
        /\ lastArg' = <<>>
        /\ result' = [threw |-> FALSE, value |-> getById(tasks, id)]
        /\ UNCHANGED <<tasks, clock, text, phase, out>>

List ==
    /\ lastOp' = "list"
    /\ lastArg' = <<>>
    /\ result' = [threw |-> FALSE, value |-> list(tasks)]
    /\ UNCHANGED <<tasks, clock, text, phase, out>>

UpdateStatus ==
    \E id \in RepoIds, status \in {"open", "done"},
       completedAtIso \in {UNDEFINED, nowIso(3)} :
        LET r == updateStatus(tasks, id, status, completedAtIso)
        IN  /\ tasks' = r.tasks
            /\ lastOp' = "updateStatus"
            /\ lastArg' = [id |-> id]
            /\ result' = [threw |-> r.threw, value |-> r.value]
            /\ UNCHANGED <<clock, text, phase, out>>

Remove ==
    \E id \in RepoIds :
        /\ tasks' = remove(tasks, id)
        /\ lastOp' = "remove"
        /\ lastArg' = <<>>
        /\ result' = [threw |-> FALSE, value |-> UNDEFINED]
        /\ UNCHANGED <<clock, text, phase, out>>

RepoNext == Create \/ GetById \/ List \/ UpdateStatus \/ Remove

RepoSpec == RepoInit /\ [][RepoNext]_vars

-----------------------------------------------------------------------------
(* The AI Comment scanner: the guide's two detection patterns, applied to    *)
(* the text, and the prefix-operator classification of each payload.         *)

BLOCK_OPEN == <<"/", "*", "[">>
BLOCK_CLOSE == <<"]", "*", "/">>

\* the prefix operators of the guide
PrefixOperators == {"?", "~", ">", ":"}

\* the literal lit stands in s at index i
LitAt(s, i, lit) ==
    /\ i >= 1
    /\ i + Len(lit) - 1 <= Len(s)
    /\ SubSeq(s, i, i + Len(lit) - 1) = lit

NoMatch == [ok |-> FALSE]

\* \s*\]\*\/ at index e: the index of the match's last character, or 0
BlockTailAt(s, e) ==
    LET k == SkipWs(s, e)
    IN  IF LitAt(s, k, BLOCK_CLOSE) THEN k + Len(BLOCK_CLOSE) - 1 ELSE 0

RECURSIVE BlockLazy_eof(_, _, _)
\* the capture with the end of the text taken for a closing delimiter
BlockLazy_eof(s, from, e) ==
    IF e > Len(s) + 1
    THEN [ok |-> TRUE, payload |-> SubSeq(s, from, Len(s)), end |-> Len(s)]
    ELSE IF BlockTailAt(s, e) # 0
         THEN [ok |-> TRUE, payload |-> SubSeq(s, from, e - 1),
               end |-> BlockTailAt(s, e)]
         ELSE BlockLazy_eof(s, from, e + 1)

RECURSIVE BlockLazy(_, _, _)
\* ([\s\S]*?) from index from: the shortest capture after which the tail matches
BlockLazy(s, from, e) ==
    IF e > Len(s) + 1 THEN NoMatch
    ELSE IF BlockTailAt(s, e) # 0
         THEN [ok |-> TRUE, payload |-> SubSeq(s, from, e - 1),
               end |-> BlockTailAt(s, e)]
         ELSE BlockLazy(s, from, e + 1)

\* the block pattern with \s+ after the opening delimiter
BlockMatchAt_needsSpace(s, i) ==
    IF ~LitAt(s, i, BLOCK_OPEN) THEN NoMatch
    ELSE LET from == SkipWs(s, i + Len(BLOCK_OPEN))
         IN  IF from = i + Len(BLOCK_OPEN) THEN NoMatch
             ELSE BlockLazy(s, from, from)

\* the block pattern with ([\s\S]+?) for its capture
BlockMatchAt_nonEmpty(s, i) ==
    IF ~LitAt(s, i, BLOCK_OPEN) THEN NoMatch
    ELSE LET from == SkipWs(s, i + Len(BLOCK_OPEN))
         IN  BlockLazy(s, from, from + 1)

\* Block:  /\/\*\[\s*([\s\S]*?)\s*\]\*\//  tried at index i
BlockMatchAt(s, i) ==
    IF ~LitAt(s, i, BLOCK_OPEN) THEN NoMatch
    ELSE LET from == SkipWs(s, i + Len(BLOCK_OPEN))
         IN  BlockLazy(s, from, from)

RECURSIVE BlockMatches(_, _)
\* every match of the block pattern from index i on, left to right; the search
\* resumes after the end of a match
BlockMatches(s, i) ==
    IF i > Len(s) THEN <<>>
    ELSE LET m == BlockMatchAt(s, i)
         IN  IF m.ok
             THEN <<[kind |-> "block", pos |-> i, end |-> m.end,
                     payload |-> m.payload]>> \o BlockMatches(s, m.end + 1)
             ELSE BlockMatches(s, i + 1)

\* the marker alternation with # left out
LineMarkerAt_noHash(s, p) ==
    IF LitAt(s, p, <<"/", "/">>) THEN 2
    ELSE IF LitAt(s, p, <<"-", "-">>) THEN 2
    ELSE IF LitAt(s, p, <<";">>) THEN 1
    ELSE 0

\* (?://|#|--|;) at index p: the length of the marker, or 0
LineMarkerAt(s, p) ==
    IF LitAt(s, p, <<"/", "/">>) THEN 2
    ELSE IF LitAt(s, p, <<"#">>) THEN 1
    ELSE IF LitAt(s, p, <<"-", "-">>) THEN 2
    ELSE IF LitAt(s, p, <<";">>) THEN 1
    ELSE 0

\* \s*\]\s*$ at index e of a line
LineTailAt(line, e) ==
    LET k == SkipWs(line, e)
    IN  /\ LitAt(line, k, <<"]">>)
        /\ SkipWs(line, k + 1) = Len(line) + 1

RECURSIVE LineLazy(_, _, _)
\* (.*?) from index from: the shortest capture after which the tail matches
LineLazy(line, from, e) ==
    IF e > Len(line) + 1 THEN NoMatch
    ELSE IF LineTailAt(line, e)
         THEN [ok |-> TRUE, payload |-> SubSeq(line, from, e - 1)]
         ELSE LineLazy(line, from, e + 1)

\* Line:  /^\s*(?://|#|--|;)\s*\[\s*(.*?)\s*\]\s*$/  on one line
LineMatch(line) ==
    LET p == SkipWs(line, 1)
        m == LineMarkerAt(line, p)
        q == SkipWs(line, p + m)
    IN  IF m = 0 \/ ~LitAt(line, q, <<"[">>) THEN NoMatch
        ELSE LET from == SkipWs(line, q + 1)
             IN  LineLazy(line, from, from)

RECURSIVE LineEnd(_, _)
\* index of the first line terminator at or after i (Len(s) + 1 if none)
LineEnd(s, i) ==
    IF i <= Len(s) /\ s[i] # "\n" THEN LineEnd(s, i + 1) ELSE i

RECURSIVE LineMatches_relative(_, _)
\* the line pattern with each match placed by its index in its own line
LineMatches_relative(s, i) ==
    IF i > Len(s) THEN <<>>
    ELSE LET e == LineEnd(s, i)
             m == LineMatch(SubSeq(s, i, e - 1))
         IN  IF m.ok
             THEN <<[kind |-> "line", pos |-> 1, end |-> e - i,
                     payload |-> m.payload]>> \o LineMatches_relative(s, e + 1)
             ELSE LineMatches_relative(s, e + 1)

RECURSIVE LineMatches(_, _)
\* the line pattern, anchored to each line of the text in turn, from the line
\* that starts at index i
LineMatches(s, i) ==
    IF i > Len(s) THEN <<>>
    ELSE LET e == LineEnd(s, i)
             m == LineMatch(SubSeq(s, i, e - 1))
         IN  IF m.ok
             THEN <<[kind |-> "line", pos |-> i, end |-> e - 1,
                     payload |-> m.payload]>> \o LineMatches(s, e + 1)
             ELSE LineMatches(s, e + 1)

RECURSIVE MergeByPos(_, _)
\* the matches of the patterns in document order
MergeByPos(a, b) ==
    IF Len(a) = 0 THEN b
    ELSE IF Len(b) = 0 THEN a
    ELSE IF Head(a).pos <= Head(b).pos
         THEN <<Head(a)>> \o MergeByPos(Tail(a), b)
         ELSE <<Head(b)>> \o MergeByPos(a, Tail(b))

\* steps 2 to 5: strip the payload, then the operator, the text and whether
\* the missing space after the operator needs normalizing
Classify(m) ==
    LET p == trim(m.payload)
        base == [kind |-> m.kind, pos |-> m.pos, end |-> m.end]
    IN  IF Len(p) > 0 /\ p[1] \in PrefixOperators
        THEN IF Len(p) > 1 /\ p[2] \in WS
             THEN base @@ [operator |-> p[1], text |-> trim(Tail(p)),
                           flag |-> FALSE]
             ELSE base @@ [operator |-> p[1], text |-> trim(Tail(p)),
                           flag |-> TRUE]
        ELSE base @@ [operator |-> "none", text |-> p, flag |-> FALSE]

\* the configured wrapper patterns: a set, applied in no stated order
Patterns == {"block", "line"}

MatchesOf(pattern, s) ==
    IF pattern = "block" THEN BlockMatches(s, 1) ELSE LineMatches(s, 1)

\* the scanner: every pattern applied across the text, pattern first before
\* the other, each match classified
ScannerIn(first, s) ==
    LET second == CHOOSE p \in Patterns : p # first
        ms == MergeByPos(MatchesOf(first, s), MatchesOf(second, s))
    IN  [k \in 1..Len(ms) |-> Classify(ms[k])]

Scanner(s) == ScannerIn("block", s)

Tokens ==
    {BLOCK_OPEN, BLOCK_CLOSE, <<"/", "/", "[">>, <<"#", " ", "[">>,
     <<"]">>, <<" ">>, <<"\n">>, <<">">>}

ScanInit ==
    /\ tasks = <<>>
    /\ clock = 0
    /\ lastOp = "none"
    /\ lastArg = 0
    /\ result = [threw |-> FALSE]
    /\ text = <<>>
    /\ phase = "input"
    /\ out = <<>>

\* the source text grows by one token
Type ==
    \E tok \in Tokens :
        /\ phase = "input"
        /\ lastArg < MaxToks
        /\ text' = text \o tok
        /\ lastArg' = lastArg + 1
        /\ lastOp' = "type"
        /\ UNCHANGED <<tasks, clock, result, phase, out>>

\* one invocation of the scanner on the text
Scan ==
    \E first \in Patterns :
        /\ phase = "input"
        /\ out' = ScannerIn(first, text)
        /\ phase' = "scanned"
        /\ lastOp' = "scan"
        /\ UNCHANGED <<tasks, clock, lastArg, result, text>>

ScanNext == Type \/ Scan

ScanSpec == ScanInit /\ [][ScanNext]_vars

-----------------------------------------------------------------------------
(* Claims about the Tasker sample. *)

KnownCommands == {ADD, LIST, DONE, REMOVE, HELP, DASH_H, DASH_HELP}

\* the argv of the last command is invalid user input: no command, an unknown
\* command, a missing or whitespace-only argument, or an id that is not stored
InvalidInput ==
    LET argv == lastArg.argv
    IN  \/ Len(argv) = 0
        \/ /\ Len(argv) > 0
           /\ \/ argv[1] \notin KnownCommands
              \/ argv[1] = ADD /\ trim(join(Tail(argv), <<" ">>)) = <<>>
              \/ argv[1] \in {DONE, REMOVE} /\ ~lastArg.known

\* C1: runCli never throws; it returns a CliResult for every argv, and for
\* invalid user input the result's exitCode is EXIT.USAGE.
C1_RunCliNeverThrows ==
    lastOp = "runCli" =>
        /\ ~result.threw
        /\ InvalidInput => result.exitCode = EXIT_USAGE

\* C2: a successful updateStatus leaves the stored and returned task with
\* completedAtIso set exactly when its status is "done", whatever the
\* arguments were.
C2_DoneIffCompleted ==
    (lastOp = "updateStatus" /\ ~result.threw) =>
        /\ getById(tasks, lastArg.id) = result.value
        /\ (result.value.status = "done") <=> (result.value.completedAtIso # UNDEFINED)

\* t is s with its leading and trailing whitespace removed, stated on the
\* strings themselves: s is whitespace, then t, then whitespace, and t neither
\* starts nor ends with whitespace
IsTrimOf(t, s) ==
    \E i \in 0..Len(s) :
        /\ i + Len(t) <= Len(s)
        /\ \A k \in 1..i : s[k] \in WS
        /\ \A k \in 1..Len(t) : s[i + k] = t[k]
        /\ \A k \in (i + Len(t) + 1)..Len(s) : s[k] \in WS
        /\ Len(t) > 0 => (t[1] \notin WS /\ t[Len(t)] \notin WS)

\* the last command was an `add` that went through
AddReturned ==
    /\ lastOp = "runCli"
    /\ ~result.threw
    /\ Len(lastArg.argv) > 0
    /\ lastArg.argv[1] = ADD
    /\ result.exitCode = EXIT_OK

\* C11: the task addTask stores and returns has the input's title with
\* leading and trailing whitespace removed, status "open" and no
\* completedAtIso; and every task stored through runCli has a non-empty
\* title that neither starts nor ends with whitespace.
C11_AddTaskTrims ==
    /\ AddReturned =>
            /\ Len(result.created) = 1
            /\ \E i \in 1..Len(tasks) : tasks[i] = result.created[1]
            /\ IsTrimOf(result.created[1].title,
                        join(Tail(lastArg.argv), <<" ">>))
            /\ result.created[1].status = "open"
            /\ result.created[1].completedAtIso = UNDEFINED
    /\ \A i \in 1..Len(tasks) :
            LET title == tasks[i].title
            IN  /\ Len(title) > 0
                /\ title[1] \notin WS
                /\ title[Len(title)] \notin WS

\* an `add` whose title came with leading whitespace, stored without it,
\* next to a task an earlier command completed
C11_Witness ==
    /\ AddReturned
    /\ join(Tail(lastArg.argv), <<" ">>)[1] \in WS
    /\ result.created[1].title = <<"x">>
    /\ \E i \in 1..Len(tasks) : tasks[i].status = "done"

IsSortedByCreated(ts) ==
    \A i \in 1..(Len(ts) - 1) :
        localeCompare(ts[i].createdAtIso, ts[i + 1].createdAtIso) <= 0

SameTasksEachOnce(listed, stored) ==
    /\ Len(listed) = Len(stored)
    /\ \A i \in 1..Len(stored) :
        Cardinality({j \in 1..Len(listed) : listed[j] = stored[i]}) = 1

\* the ids of a sequence of tasks, in its order
IdsOf(ts) == [i \in 1..Len(ts) |-> ts[i].id]

\* C3: list() returns exactly the stored tasks, each once, ascending by
\* createdAtIso; list() leaves the store as it was; and a successful
\* updateStatus leaves every task where it was in list()'s order.
C3_ListSortedAndStable ==
    /\ [](lastOp = "list" =>
            /\ SameTasksEachOnce(result.value, tasks)
            /\ IsSortedByCreated(result.value))
    /\ [][lastOp' = "list" => tasks' = tasks]_vars
    /\ [][(lastOp' = "updateStatus" /\ ~result'.threw) =>
            IdsOf(list(tasks')) = IdsOf(list(tasks))]_vars

C3_Witness ==
    /\ lastOp = "list"
    /\ Len(result.value) = MaxTasks
    /\ result.value # tasks
    /\ \E i \in 1..Len(tasks) : tasks[i].status = "done"

-----------------------------------------------------------------------------
(* Claims about the scanner.  Wrappers are described here without the        *)
(* patterns' matching procedure: by where their delimiters stand.            *)

IsWs(s, a, b) == \A i \in a..b : s[i] \in WS

\* s with leading and trailing whitespace removed
Stripped(s) ==
    LET solid == {i \in 1..Len(s) : s[i] \notin WS}
    IN  IF solid = {} THEN <<>>
        ELSE SubSeq(s, CHOOSE i \in solid : \A j \in solid : i <= j,
                       CHOOSE i \in solid : \A j \in solid : i >= j)

\* s is one block wrapper: /*[ ... ]*/ with no closing delimiter before its end
IsBlockWrapper(s) ==
    /\ Len(s) >= Len(BLOCK_OPEN) + Len(BLOCK_CLOSE)
    /\ LitAt(s, 1, BLOCK_OPEN)
    /\ LitAt(s, Len(s) - 2, BLOCK_CLOSE)
    /\ \A c \in 4..(Len(s) - 3) : ~LitAt(s, c, BLOCK_CLOSE)

BlockInterior(s) == SubSeq(s, 4, Len(s) - 3)

MarkerLits == {<<"/", "/">>, <<"#">>, <<"-", "-">>, <<";">>}

\* the places (q, k) of the brackets when s is one line wrapper:
\* whitespace, marker, whitespace, [ at q, interior, ] at k, whitespace
LineBrackets(s) ==
    {qk \in (1..Len(s)) \X (1..Len(s)) :
        /\ qk[1] < qk[2]
        /\ s[qk[1]] = "[" /\ s[qk[2]] = "]"
        /\ IsWs(s, qk[2] + 1, Len(s))
        /\ \E p \in 1..qk[1], mk \in MarkerLits :
            /\ IsWs(s, 1, p - 1)
            /\ LitAt(s, p, mk)
            /\ p + Len(mk) <= qk[1]
            /\ IsWs(s, p + Len(mk), qk[1] - 1)}

IsLineWrapper(s) ==
    /\ \A i \in 1..Len(s) : s[i] # "\n"
    /\ LineBrackets(s) # {}

LineInterior(s) ==
    LET qk == CHOOSE x \in LineBrackets(s) : TRUE
    IN  SubSeq(s, qk[1] + 1, qk[2] - 1)

IsWrapper(kind, s) ==
    IF kind = "block" THEN IsBlockWrapper(s) ELSE IsLineWrapper(s)

\* the stripped payload of the wrapper s
PayloadOf(kind, s) ==
    Stripped(IF kind = "block" THEN BlockInterior(s) ELSE LineInterior(s))

SpanOf(a) == SubSeq(text, a.pos, a.end)

\* every annotation returned stands on a wrapper of its kind in the text
SpansAreWrappers ==
    \A k \in DOMAIN out :
        /\ 1 <= out[k].pos /\ out[k].pos <= out[k].end /\ out[k].end <= Len(text)
        /\ IsWrapper(out[k].kind, SpanOf(out[k]))

OperatorChars == {"?", "~", ">", ":"}

\* operator, then exactly one space, then the text
SpacedOperator(p) ==
    Len(p) >= 3 /\ p[1] \in OperatorChars /\ p[2] = " " /\ p[3] \notin WS

\* operator with no whitespace after it (or nothing at all after it)
BareOperator(p) ==
    Len(p) >= 1 /\ p[1] \in OperatorChars /\ (Len(p) >= 2 => p[2] \notin WS)

NoOperator(p) == Len(p) = 0 \/ p[1] \notin OperatorChars

WholeKinds == {kind \in {"block", "line"} : IsWrapper(kind, text)}

\* the annotations of the scan that carry operator op, text t and flag f
Carrying(op, t, f) ==
    {k \in DOMAIN out : out[k].operator = op /\ out[k].text = t /\ out[k].flag = f}

\* C4: a wrapper whose stripped payload is an operator, one space and text
\* yields exactly one annotation with that operator, the rest of the payload
\* stripped as text, and no normalization flag.
C4_SpacedOperatorExtracted ==
    phase = "scanned" =>
        /\ SpansAreWrappers
        /\ \A k \in DOMAIN out :
            LET p == PayloadOf(out[k].kind, SpanOf(out[k]))
            IN  SpacedOperator(p) =>
                    /\ out[k].operator = p[1]
                    /\ out[k].text = Stripped(Tail(p))
                    /\ ~out[k].flag
        /\ \A kind \in WholeKinds :
            LET p == PayloadOf(kind, text)
            IN  SpacedOperator(p) =>
                    /\ Cardinality(Carrying(p[1], Stripped(Tail(p)), FALSE)) = 1
                    /\ \E k \in DOMAIN out :
                        out[k].kind = kind /\ out[k].pos = 1 /\ out[k].end = Len(text)

C4_Witness ==
    /\ phase = "scanned"
    /\ \E kind \in WholeKinds : SpacedOperator(PayloadOf(kind, text))
    /\ Len(out) = 1 /\ out[1].operator = ">" /\ out[1].text = <<"]">>

\* C5: a wrapper whose stripped payload is an operator with no whitespace
\* after it (the operator alone included) still yields an annotation with
\* that operator and the remainder as text, flagged for normalization; and
\* no other annotation is flagged.
C5_BareOperatorFlagged ==
    phase = "scanned" =>
        /\ \A k \in DOMAIN out :
            LET p == PayloadOf(out[k].kind, SpanOf(out[k]))
            IN  /\ BareOperator(p) =>
                    /\ out[k].operator = p[1]
                    /\ out[k].text = Tail(p)
                    /\ out[k].flag
                /\ out[k].flag => BareOperator(p)
        /\ \A kind \in WholeKinds :
            LET p == PayloadOf(kind, text)
            IN  BareOperator(p) =>
                    \E k \in DOMAIN out :
                        /\ out[k].kind = kind /\ out[k].pos = 1
                        /\ out[k].end = Len(text) /\ out[k].operator = p[1]

C5_Witness ==
    /\ phase = "scanned"
    /\ \E kind \in WholeKinds : BareOperator(PayloadOf(kind, text))
    /\ Len(out) = 1
    /\ out[1].flag /\ out[1].operator = ">" /\ out[1].text = <<"]">>

\* C6: a matched wrapper whose stripped payload does not begin with an
\* operator character (empty and whitespace-only payloads included) yields
\* operator none and the whole stripped interior as text.
C6_NoOperatorIsIntent ==
    phase = "scanned" =>
        /\ \A k \in DOMAIN out :
            LET p == PayloadOf(out[k].kind, SpanOf(out[k]))
            IN  NoOperator(p) =>
                    /\ out[k].operator = "none"
                    /\ out[k].text = p
                    /\ ~out[k].flag
        /\ \A kind \in WholeKinds :
            NoOperator(PayloadOf(kind, text)) =>
                \E k \in DOMAIN out :
                    /\ out[k].kind = kind /\ out[k].pos = 1
                    /\ out[k].end = Len(text) /\ out[k].operator = "none"

C6_Witness ==
    /\ phase = "scanned"
    /\ \E k \in DOMAIN out : out[k].operator = "none" /\ out[k].text = <<>>
    /\ \E k \in DOMAIN out :
        out[k].operator = "none" /\ Len(out[k].text) > 1 /\ out[k].text[1] = "#"

\* the annotation written back in canonical form: opening delimiter, the
\* operator and one space when there is an operator, the text, closing delimiter
Serialize(a) ==
    (IF a.kind = "block" THEN BLOCK_OPEN ELSE <<"/", "/", "[">>)
    \o <<" ">>
    \o (IF a.operator = "none" THEN <<>> ELSE <<a.operator, " ">>)
    \o a.text
    \o <<" ">>
    \o (IF a.kind = "block" THEN BLOCK_CLOSE ELSE <<"]">>)

\* C7: every annotation of a scan, written back in canonical form and scanned
\* again, yields exactly one annotation, equal to it in operator and text.
C7_RoundTrip ==
    phase = "scanned" =>
        \A k \in DOMAIN out :
            LET again == Scanner(Serialize(out[k]))
            IN  /\ Len(again) = 1
                /\ again[1].operator = out[k].operator
                /\ again[1].text = out[k].text

\* what remains of the round trip: the first annotation of the second scan
\* spans the whole serialized text and equals the original; any further
\* annotation lies inside its span, on a wrapper of the other pattern
C7_RoundTripOutermost ==
    phase = "scanned" =>
        \A k \in DOMAIN out :
            LET ser == Serialize(out[k])
                again == Scanner(ser)
            IN  /\ Len(again) >= 1
                /\ again[1].pos = 1 /\ again[1].end = Len(ser)
                /\ again[1].kind = out[k].kind
                /\ again[1].operator = out[k].operator
                /\ again[1].text = out[k].text
                /\ \A j \in 2..Len(again) :
                    /\ again[j].kind # out[k].kind
                    /\ again[j].pos > 1 /\ again[j].end < Len(ser)

OpensAt == {i \in 1..Len(text) : LitAt(text, i, BLOCK_OPEN)}

ClosesAt == {c \in 1..Len(text) : LitAt(text, c, BLOCK_CLOSE)}

\* the opening delimiters with no closing delimiter after them
Unterminated(opens, closes) ==
    {i \in opens : \A c \in closes : c < i + Len(BLOCK_OPEN)}

NewlinesAt == {n \in 1..Len(text) : text[n] = "\n"}

\* the last index of the line of the text that starts at index i
LineStop(newlines, i) ==
    LET after == {n \in newlines : n >= i}
    IN  IF after = {} THEN Len(text)
        ELSE (CHOOSE n \in after : \A m \in after : n <= m) - 1

\* the line of the text that starts at index i has no closing bracket
LineWithoutClose(newlines, i) ==
    \A j \in i..LineStop(newlines, i) : text[j] # "]"

NoLineWrapper(newlines) ==
    \A i \in {1} \cup {n + 1 : n \in newlines} :
        ~IsLineWrapper(SubSeq(text, i, LineStop(newlines, i)))

\* C8: a scan returns a finite sequence of annotations; a text without a
\* wrapper yields the empty sequence; an opening /*[ that is never closed
\* and a line without a closing ] yield no annotation.
C8_MalformedIsSilent ==
    phase = "scanned" =>
        LET opens == OpensAt
            unterminated == Unterminated(opens, ClosesAt)
            newlines == NewlinesAt
        IN  /\ DOMAIN out = 1..Len(out)
            /\ Len(out) <= Len(text)
            /\ (opens = unterminated /\ NoLineWrapper(newlines)) => out = <<>>
            /\ \A k \in DOMAIN out :
                /\ out[k].kind = "block" => out[k].pos \notin unterminated
                /\ out[k].kind = "line" => ~LineWithoutClose(newlines, out[k].pos)

C8_Witness ==
    /\ phase = "scanned"
    /\ Unterminated(OpensAt, ClosesAt) # {}
    /\ \E i \in 1..Len(text) :
        LitAt(text, i, <<"/", "/", "[">>) /\ LineWithoutClose(NewlinesAt, i)
    /\ out = <<>>

\* C9: the annotations of a scan stand in document order: each starts at a
\* strictly smaller position of the text than the next, on the wrapper it
\* reports, whichever pattern found it and whichever pattern the scan
\* applied first (Scan applies them in either order).
C9_DocumentOrder ==
    phase = "scanned" =>
        /\ SpansAreWrappers
        /\ \A k \in 1..(Len(out) - 1) : out[k].pos < out[k + 1].pos

C9_Witness ==
    /\ phase = "scanned"
    /\ Len(out) = 2
    /\ out[1].kind = "line" /\ out[2].kind = "block"
    /\ out[1].end < out[2].pos

\* the spans of annotations j and k share no character of the text
SpansApart(j, k) == out[j].end < out[k].pos \/ out[k].end < out[j].pos

\* C12: wrapper-like sequences inside a payload are not parsed again: every
\* character of the text lies in the matched span of at most one annotation,
\* so a wrapper with a wrapper inside it yields one annotation.
C12_NoNestedReparse ==
    phase = "scanned" =>
        \A j \in DOMAIN out : \A k \in DOMAIN out : j # k => SpansApart(j, k)

\* what holds of the spans: those found by one pattern share no character
\* (a block wrapper with a second opening inside it is one annotation), and
\* two spans that share a character come from the two different patterns
C12_SamePatternApart ==
    phase = "scanned" =>
        \A j \in DOMAIN out : \A k \in DOMAIN out :
            (j # k /\ out[j].kind = out[k].kind) => SpansApart(j, k)

====
